---- MODULE Spec2Model ----
(***************************************************************************)
(* io_tee: TeeReader and TeeWriter (src/src/lib.rs).                       *)
(*                                                                         *)
(* A TeeReader owns a reader and a writer; every read-family method        *)
(* delegates to the reader and then write_all()s a slice of the caller's   *)
(* buffer to the writer.  A TeeWriter owns two writers, left and right.    *)
(* The wrapped streams are the environment: an in-memory byte stream with  *)
(* a position for the reader, bounded in-memory byte sinks for the         *)
(* writers (as the &mut [u8] sinks of the tests), each of which may also   *)
(* fail the way std::io allows.                                            *)
(***************************************************************************)
EXTENDS Integers, Sequences, FiniteSets, TLC

\* ---------------------------------------------------------------- bounds
MaxLen   == 2   \* longest content of the wrapped reader
SinkCap  == 2   \* capacity of a wrapped writer
MaxBuf   == 2   \* largest caller buffer handed to read / read_exact / write
MaxAcc   == 1   \* longest accumulator content before a read_to_end / read_until / read_line
MaxPeek  == 1   \* most bytes taken through fill_buf / consume in one run

NL      == 10   \* b'\n', the delimiter of read_line
ZERO    == 0    \* the initial content of a caller's [0u8; N] buffer

\* the bytes streams carry: newline, and 255, which is never valid UTF-8
Byte == {NL, 255}

Min(a, b) == IF a < b THEN a ELSE b

RECURSIVE SeqsUpTo(_, _)
SeqsUpTo(S, n) ==
    IF n = 0 THEN {<<>>}
    ELSE LET T == SeqsUpTo(S, n - 1)
         IN  T \cup {Append(s, b) : s \in {t \in T : Len(t) = n - 1}, b \in S}

\* the accumulators callers pass in: some earlier content
Accs == {[i \in 1..k |-> NL] : k \in 0..MaxAcc}

Zeros(k) == [i \in 1..k |-> ZERO]

\* ------------------------------------------------------- io::Result values
NoErr == [from |-> "none", kind |-> "none"]
Err(from, kind) == [from |-> from, kind |-> kind]

VARIABLES
    obj,        \* which wrapper was constructed: "TeeReader" or "TeeWriter"
    reader,     \* TeeReader.reader: [data, pos]
    writer,     \* TeeReader.writer: the bytes the sink has received
    left,       \* TeeWriter.left:  the bytes it has received
    right,      \* TeeWriter.right: the bytes it has received
    last,       \* the last call on the wrapper: arguments, delegate calls, result
    callerGot,  \* bytes returned to the TeeReader's caller by successful read, read_to_end,
                \* read_exact, read_until and read_line calls, recorded while clean
    peeked,     \* number of bytes the TeeReader's caller took through fill_buf / consume
    accepted,   \* bytes accepted by successful TeeWriter write / write_all calls,
                \* recorded while clean
    clean       \* TeeReader: no mirror write has failed so far;
                \* TeeWriter: every call so far was a successful write, write_all or flush

vars == <<obj, reader, writer, left, right, last, callerGot, peeked, accepted, clean>>


\* ------------------------------------------------- the wrapped streams (std::io)

\* Write::write_all on a wrapped writer holding w with capacity cap: it loops
\* over write() until the buffer is empty, so an empty buffer always succeeds
\* and a failure leaves the first j < Len(data) bytes written.
WriteAllOutcomes(w, data, cap, who) ==
    { [ok  |-> j = Len(data),
       w   |-> w \o SubSeq(data, 1, j),
       err |-> IF j = Len(data) THEN NoErr
               ELSE IF Len(w) + j = cap THEN Err(who, "WriteZero")
               ELSE Err(who, "Other")] :
      j \in 0..Min(Len(data), cap - Len(w)) }

Remaining(rd) == Len(rd.data) - rd.pos
Next_n(rd, n) == SubSeq(rd.data, rd.pos + 1, rd.pos + n)
Advance(rd, n) == [rd EXCEPT !.pos = rd.pos + n]

\* Read::read into a buffer of k bytes: some 1..min(k, remaining) bytes, 0 only
\* at end of stream or for an empty buffer; or an error that takes nothing.
ReaderRead(rd, k) ==
    LET m == Min(k, Remaining(rd))
    IN  { [ok |-> TRUE, n |-> n, took |-> n, err |-> NoErr] :
            n \in (IF m = 0 THEN {0} ELSE 1..m) }
        \cup { [ok |-> FALSE, n |-> 0, took |-> 0, err |-> Err("reader", "Other")] }

\* Read::read_to_end: everything up to end of stream, or an error after some
\* bytes were already appended to the accumulator.
ReaderReadToEnd(rd) ==
    { [ok |-> TRUE, n |-> Remaining(rd), took |-> Remaining(rd), err |-> NoErr] }
    \cup { [ok |-> FALSE, n |-> 0, took |-> j, err |-> Err("reader", "Other")] :
             j \in 0..Remaining(rd) }

\* Read::read_exact of k bytes: all k, or UnexpectedEof when fewer remain, or
\* an I/O error; a failure may have taken any part of what was there.
ReaderReadExact(rd, k) ==
    (IF Remaining(rd) >= k
     THEN { [ok |-> TRUE, n |-> k, took |-> k, err |-> NoErr] }
     ELSE { [ok |-> FALSE, n |-> 0, took |-> j, err |-> Err("reader", "UnexpectedEof")] :
              j \in 0..Remaining(rd) })
    \cup { [ok |-> FALSE, n |-> 0, took |-> j, err |-> Err("reader", "Other")] :
             j \in 0..(Min(k, Remaining(rd)) - 1) }

\* number of bytes up to and including the first `byte` at or after the
\* position, or up to end of stream when there is none
ScanLen(rd, byte) ==
    LET hits == { i \in 1..Remaining(rd) : rd.data[rd.pos + i] = byte }
    IN  IF hits = {} THEN Remaining(rd)
        ELSE CHOOSE i \in hits : \A h \in hits : i <= h

\* BufRead::read_until
ReaderReadUntil(rd, byte) ==
    { [ok |-> TRUE, n |-> ScanLen(rd, byte), took |-> ScanLen(rd, byte), err |-> NoErr] }
    \cup { [ok |-> FALSE, n |-> 0, took |-> j, err |-> Err("reader", "Other")] :
             j \in 0..ScanLen(rd, byte) }

ValidUtf8(s) == \A i \in 1..Len(s) : s[i] < 128

\* BufRead::read_line: read_until(b'\n') followed by UTF-8 validation of the
\* appended bytes; invalid bytes are taken from the reader but the String is
\* truncated back to its old length.
ReaderReadLine(rd) ==
    LET m == ScanLen(rd, NL)
    IN  (IF ValidUtf8(Next_n(rd, m))
         THEN { [ok |-> TRUE, n |-> m, took |-> m, kept |-> m, err |-> NoErr] }
         ELSE { [ok |-> FALSE, n |-> 0, took |-> m, kept |-> 0,
                 err |-> Err("reader", "InvalidData")] })
        \cup { [ok |-> FALSE, n |-> 0, took |-> j,
                kept |-> IF ValidUtf8(Next_n(rd, j)) THEN j ELSE 0,
                err |-> Err("reader", "Other")] : j \in 0..m }

\* BufRead::fill_buf: the unread rest of the stream, or an error
ReaderFillBuf(rd) ==
    { [ok |-> TRUE, n |-> Remaining(rd), took |-> 0, err |-> NoErr],
      [ok |-> FALSE, n |-> 0, took |-> 0, err |-> Err("reader", "Other")] }

\* Seek::seek(SeekFrom::Start(p)) and Seek::stream_position
ReaderSeek(rd, p) ==
    { [ok |-> TRUE, n |-> p, pos |-> p, err |-> NoErr],
      [ok |-> FALSE, n |-> 0, pos |-> rd.pos, err |-> Err("reader", "Other")] }

ReaderStreamPosition(rd) ==
    { [ok |-> TRUE, n |-> rd.pos, pos |-> rd.pos, err |-> NoErr],
      [ok |-> FALSE, n |-> 0, pos |-> rd.pos, err |-> Err("reader", "Other")] }

\* Write::write on a wrapped writer: accepts some prefix (a short write), or fails
WriterWrite(w, data, cap, who) ==
    { [ok |-> TRUE, n |-> n, w |-> w \o SubSeq(data, 1, n), err |-> NoErr] :
        n \in 0..Min(Len(data), cap - Len(w)) }
    \cup { [ok |-> FALSE, n |-> 0, w |-> w, err |-> Err(who, "Other")] }

\* Write::write_all, with the number of bytes it got through
WriterWriteAll(w, data, cap, who) ==
    { [ok |-> o.ok, n |-> Len(o.w) - Len(w), w |-> o.w, err |-> o.err] :
        o \in WriteAllOutcomes(w, data, cap, who) }

\* Write::flush on a wrapped writer: succeeds or fails, the bytes received stay
WriterFlush(w, who) ==
    { [ok |-> TRUE, w |-> w, err |-> NoErr],
      [ok |-> FALSE, w |-> w, err |-> Err(who, "Other")] }

\* fmt::Arguments: the pieces `base`, followed when `counter` holds by a value
\* whose Display impl prints how many times it has been formatted before.
FmtArgs == [base : SeqsUpTo({NL}, 1), counter : BOOLEAN]
CounterByte(k) == 48 + k
Render(fmt, k) == IF fmt.counter THEN Append(fmt.base, CounterByte(k)) ELSE fmt.base

\* Write::write_fmt on a wrapped writer: formats, write_all()ing the output
WriterWriteFmt(w, fmt, k, cap, who) == WriterWriteAll(w, Render(fmt, k), cap, who)

\* ------------------------------------------------------------ the wrappers

\* `?` on the delegated reader / left call: TRUE when the call returns early
\* with that error (lines 87, 97, 106, 125, 132, 173, 187, 195)
TryPrimary_ignore(res) == FALSE
TryPrimary(res) == ~res.ok

\* `?` on the mirror's write_all / write_fmt (lines 88, 98, 107, 126, 133, 174, 188, 196)
TryMirror_swallow(res) == FALSE
TryMirror(res) == ~res.ok

\* `&buf[..len]` of TeeReader::read
ReadSlice_whole(buf, len) == buf
ReadSlice(buf, len) == SubSeq(buf, 1, len)

\* `&buf[start..start + len]` of read_to_end, read_until and read_line
AppendedSlice_fromZero(buf, start, len) == SubSeq(buf, 1, start + len)
AppendedSlice(buf, start, len) == SubSeq(buf, start + 1, start + len)

\* `&buf` of read_exact
ExactSlice_short(buf) == SubSeq(buf, 1, Len(buf) - 1)
ExactSlice(buf) == buf

\* what fill_buf / consume / seek / stream_position do to self.writer given
\* the bytes the reader exposed or skipped: nothing
DelegateOnly_mirror(w, bytes) == IF Len(w) + Len(bytes) <= SinkCap THEN w \o bytes ELSE w
DelegateOnly(w, bytes) == w

Pre == [pos |-> reader.pos, writer |-> writer, left |-> left, right |-> right]

NoCall ==
    [op |-> "new", ok |-> TRUE, err |-> NoErr, n |-> 0, arg |-> <<>>, out |-> <<>>,
     primOk |-> TRUE, primN |-> 0, mirrorTried |-> FALSE, mirrorOk |-> TRUE,
     mirror |-> <<>>, pre |-> [pos |-> 0, writer |-> <<>>, left |-> <<>>, right |-> <<>>]]

\* The common shape of read, read_to_end, read_exact, read_until, read_line:
\*     let len = self.reader.<op>(buf)?;
\*     self.writer.write_all(<slice of buf>)?;
\*     Ok(len)
\* r is the reader's outcome, out the caller's buffer afterwards, slice the
\* bytes the code hands to write_all.
TeeReaderCall(op, arg, out, r, slice) ==
    /\ reader' = Advance(reader, r.took)
    /\ IF TryPrimary(r)
       THEN /\ writer' = writer
            /\ callerGot' = callerGot
            /\ clean' = clean
            /\ last' = [op |-> op, ok |-> FALSE, err |-> r.err, n |-> 0, arg |-> arg, out |-> out,
                        primOk |-> r.ok, primN |-> r.took, mirrorTried |-> FALSE, mirrorOk |-> TRUE,
                        mirror |-> <<>>, pre |-> Pre]
       ELSE \E w \in WriteAllOutcomes(writer, slice, SinkCap, "writer") :
            /\ writer' = w.w
            /\ IF TryMirror(w)
               THEN /\ callerGot' = <<>>
                    /\ clean' = FALSE
                    /\ last' = [op |-> op, ok |-> FALSE, err |-> w.err, n |-> 0, arg |-> arg,
                                out |-> out, primOk |-> r.ok, primN |-> r.took,
                                mirrorTried |-> TRUE, mirrorOk |-> w.ok, mirror |-> slice, pre |-> Pre]
               ELSE /\ callerGot' = (IF clean /\ w.ok THEN callerGot \o Next_n(reader, r.n)
                                   ELSE <<>>)
                    /\ clean' = (clean /\ w.ok)
                    /\ last' = [op |-> op, ok |-> TRUE, err |-> NoErr, n |-> r.n, arg |-> arg,
                                out |-> out, primOk |-> r.ok, primN |-> r.took,
                                mirrorTried |-> TRUE, mirrorOk |-> w.ok, mirror |-> slice, pre |-> Pre]
    /\ UNCHANGED <<obj, left, right, accepted, peeked>>

\* TeeReader::read(buf) with an all-zero buf of k bytes
read ==
    /\ obj = "TeeReader"
    /\ \E k \in 0..MaxBuf : \E r \in ReaderRead(reader, k) :
         LET buf == Next_n(reader, r.took) \o Zeros(k - r.took)
         IN  TeeReaderCall("read", Zeros(k), buf, r, ReadSlice(buf, r.n))

\* TeeReader::read_to_end(buf) with buf holding acc
read_to_end ==
    /\ obj = "TeeReader"
    /\ \E acc \in Accs : \E r \in ReaderReadToEnd(reader) :
         LET start == Len(acc)
             buf   == acc \o Next_n(reader, r.took)
         IN  TeeReaderCall("read_to_end", acc, buf, r, AppendedSlice(buf, start, r.n))

\* TeeReader::read_exact(buf) with an all-zero buf of k bytes
read_exact ==
    /\ obj = "TeeReader"
    /\ \E k \in 0..MaxBuf : \E r \in ReaderReadExact(reader, k) :
         LET buf == Next_n(reader, r.took) \o Zeros(k - r.took)
         IN  TeeReaderCall("read_exact", Zeros(k), buf, r, ExactSlice(buf))

\* TeeReader::read_until(byte, buf) with buf holding acc
read_until ==
    /\ obj = "TeeReader"
    /\ \E byte \in Byte : \E acc \in Accs : \E r \in ReaderReadUntil(reader, byte) :
         LET initial_len == Len(acc)
             buf         == acc \o Next_n(reader, r.took)
         IN  TeeReaderCall("read_until", acc, buf, r, AppendedSlice(buf, initial_len, r.n))

\* TeeReader::read_line(buf) with the String buf holding acc (valid UTF-8)
read_line ==
    /\ obj = "TeeReader"
    /\ \E acc \in Accs : \E r \in ReaderReadLine(reader) :
         LET initial_len == Len(acc)
             buf         == acc \o Next_n(reader, r.kept)
         IN  TeeReaderCall("read_line", acc, buf, r, AppendedSlice(buf, initial_len, r.n))

\* The pure delegations: self.reader.<op>(..) and nothing else.
TeeReaderDelegate(op, r, rd, n, exposed, got) ==
    /\ reader' = rd
    /\ writer' = DelegateOnly(writer, exposed)
    /\ peeked' = peeked + Len(got)
    /\ last' = [op |-> op, ok |-> r.ok, err |-> r.err, n |-> n, arg |-> <<>>, out |-> exposed,
                primOk |-> r.ok, primN |-> Len(got), mirrorTried |-> FALSE, mirrorOk |-> TRUE,
                mirror |-> <<>>, pre |-> Pre]
    /\ UNCHANGED <<obj, left, right, accepted, clean, callerGot>>

\* TeeReader::fill_buf
fill_buf ==
    /\ obj = "TeeReader"
    /\ \E r \in ReaderFillBuf(reader) :
         TeeReaderDelegate("fill_buf", r, reader, r.n, Next_n(reader, r.n), <<>>)

\* TeeReader::consume(amt): the caller takes amt of the bytes fill_buf showed it
consume ==
    /\ obj = "TeeReader"
    /\ \E amt \in 0..Remaining(reader) :
         /\ peeked + amt <= MaxPeek
         /\ TeeReaderDelegate("consume", [ok |-> TRUE, err |-> NoErr], Advance(reader, amt),
                              amt, Next_n(reader, amt), Next_n(reader, amt))

\* TeeReader::seek(SeekFrom::Start(p))
seek ==
    /\ obj = "TeeReader"
    /\ \E p \in 0..Len(reader.data) : \E r \in ReaderSeek(reader, p) :
         TeeReaderDelegate("seek", r, [reader EXCEPT !.pos = r.pos], r.n,
                           SubSeq(reader.data, Min(reader.pos, r.pos) + 1,
                                  IF reader.pos < r.pos THEN r.pos ELSE reader.pos), <<>>)

\* TeeReader::stream_position
stream_position ==
    /\ obj = "TeeReader"
    /\ \E r \in ReaderStreamPosition(reader) :
         TeeReaderDelegate("stream_position", r, reader, r.n, <<>>, <<>>)

\* `&buf[..n]` of TeeWriter::write
WriteSlice_whole(buf, n) == buf
WriteSlice(buf, n) == SubSeq(buf, 1, n)

\* the buffer TeeWriter::write_all hands to right: `buf`
WriteAllArg_tail(buf) == SubSeq(buf, 2, Len(buf))
WriteAllArg(buf) == buf

\* The common shape of write, write_all, write_fmt:
\*     let n = self.left.<op>(..)?;
\*     self.right.<op>(..)?;
\*     Ok(n)
\* lo is left's outcome, ros the outcomes right can produce for what the code
\* hands it, sent what the code hands to right.
TeeWriterCall(op, arg, lo, ros, sent, counts) ==
    /\ left' = lo.w
    /\ IF TryPrimary(lo)
       THEN /\ right' = right
            /\ accepted' = <<>>
            /\ clean' = FALSE
            /\ last' = [op |-> op, ok |-> FALSE, err |-> lo.err, n |-> 0, arg |-> arg, out |-> <<>>,
                        primOk |-> lo.ok, primN |-> lo.n, mirrorTried |-> FALSE, mirrorOk |-> TRUE,
                        mirror |-> <<>>, pre |-> Pre]
       ELSE \E ro \in ros :
            /\ right' = ro.w
            /\ IF TryMirror(ro)
               THEN /\ accepted' = <<>>
                    /\ clean' = FALSE
                    /\ last' = [op |-> op, ok |-> FALSE, err |-> ro.err, n |-> 0, arg |-> arg,
                                out |-> <<>>, primOk |-> lo.ok, primN |-> lo.n,
                                mirrorTried |-> TRUE, mirrorOk |-> ro.ok, mirror |-> sent, pre |-> Pre]
               ELSE /\ accepted' = (IF clean /\ counts THEN accepted \o SubSeq(arg, 1, lo.n)
                                  ELSE <<>>)
                    /\ clean' = (clean /\ counts)
                    /\ last' = [op |-> op, ok |-> TRUE, err |-> NoErr, n |-> lo.n, arg |-> arg,
                                out |-> <<>>, primOk |-> lo.ok, primN |-> lo.n,
                                mirrorTried |-> TRUE, mirrorOk |-> ro.ok, mirror |-> sent, pre |-> Pre]
    /\ UNCHANGED <<obj, reader, writer, callerGot, peeked>>

\* TeeWriter::write(buf)
write ==
    /\ obj = "TeeWriter"
    /\ \E buf \in SeqsUpTo(Byte, MaxBuf) : \E lo \in WriterWrite(left, buf, SinkCap, "left") :
         LET n == lo.n
         IN  TeeWriterCall("write", buf, lo,
                           WriterWriteAll(right, WriteSlice(buf, n), SinkCap, "right"),
                           WriteSlice(buf, n), TRUE)

\* TeeWriter::write_all(buf)
write_all ==
    /\ obj = "TeeWriter"
    /\ \E buf \in SeqsUpTo(Byte, MaxBuf) : \E lo \in WriterWriteAll(left, buf, SinkCap, "left") :
         TeeWriterCall("write_all", buf, lo,
                       WriterWriteAll(right, WriteAllArg(buf), SinkCap, "right"),
                       WriteAllArg(buf), TRUE)

\* TeeWriter::write_fmt(fmt): fmt is formatted once by left.write_fmt and a
\* second time by right.write_fmt
write_fmt ==
    /\ obj = "TeeWriter"
    /\ \E fmt \in FmtArgs : \E lo \in WriterWriteFmt(left, fmt, 0, SinkCap, "left") :
         TeeWriterCall("write_fmt", Render(fmt, 0), lo,
                       WriterWriteFmt(right, fmt, 1, SinkCap, "right"),
                       Render(fmt, 1), FALSE)

\* The body of TeeWriter::flush on streams l and r, with the outcomes lo and ro
\* the two flush calls would produce: the streams afterwards, the result, and
\* the delegate calls made, in order.
FlushBoth_rightFirst(l, r, lo, ro) ==
    IF ~ro.ok THEN [left |-> l, right |-> ro.w, ok |-> FALSE, err |-> ro.err, calls |-> <<"right">>]
    ELSE IF ~lo.ok
         THEN [left |-> lo.w, right |-> ro.w, ok |-> FALSE, err |-> lo.err, calls |-> <<"right", "left">>]
         ELSE [left |-> lo.w, right |-> ro.w, ok |-> TRUE, err |-> NoErr, calls |-> <<"right", "left">>]
FlushBoth(l, r, lo, ro) ==
    IF ~lo.ok THEN [left |-> lo.w, right |-> r, ok |-> FALSE, err |-> lo.err, calls |-> <<"left">>]
    ELSE IF ~ro.ok
         THEN [left |-> lo.w, right |-> ro.w, ok |-> FALSE, err |-> ro.err, calls |-> <<"left", "right">>]
         ELSE [left |-> lo.w, right |-> ro.w, ok |-> TRUE, err |-> NoErr, calls |-> <<"left", "right">>]

\* TeeWriter::flush
flush ==
    /\ obj = "TeeWriter"
    /\ \E lo \in WriterFlush(left, "left") : \E ro \in WriterFlush(right, "right") :
         LET f == FlushBoth(left, right, lo, ro)
         IN  /\ left' = f.left
             /\ right' = f.right
             /\ clean' = (clean /\ f.ok)
             /\ accepted' = (IF clean /\ f.ok THEN accepted ELSE <<>>)
             /\ last' = [op |-> "flush", ok |-> f.ok, err |-> f.err, n |-> 0, arg |-> f.calls,
                         out |-> <<>>, primOk |-> lo.ok, primN |-> 0,
                         mirrorTried |-> (Len(f.calls) = 2), mirrorOk |-> ro.ok,
                         mirror |-> <<>>, pre |-> Pre]
    /\ UNCHANGED <<obj, reader, writer, callerGot, peeked>>

\* TeeReader::new(reader, writer) over any content, or TeeWriter::new(left, right)
Init ==
    /\ obj \in {"TeeReader", "TeeWriter"}
    /\ reader \in [data : (IF obj = "TeeReader" THEN SeqsUpTo(Byte, MaxLen) ELSE {<<>>}), pos : {0}]
    /\ writer = <<>>
    /\ left = <<>>
    /\ right = <<>>
    /\ last = NoCall
    /\ callerGot = <<>>
    /\ peeked = 0
    /\ accepted = <<>>
    /\ clean = TRUE

Next ==
    \/ read
    \/ read_to_end
    \/ read_exact
    \/ fill_buf
    \/ consume
    \/ read_until
    \/ read_line
    \/ seek
    \/ stream_position
    \/ write
    \/ flush
    \/ write_all
    \/ write_fmt

Spec == Init /\ [][Next]_vars

\* ------------------------------------------------------------------ claims

ReadOps    == {"read", "read_to_end", "read_exact", "read_until", "read_line"}
AppendOps  == {"read_to_end", "read_until", "read_line"}
PureOps    == {"fill_buf", "consume", "seek", "stream_position"}
WriteOps   == {"write", "write_all", "write_fmt"}

\* what the last call added to a stream that held `before` and now holds `now`
Added(before, now) == SubSeq(now, Len(before) + 1, Len(now))

C2_LeftEqualsRight ==
    (obj = "TeeWriter" /\ clean) => (left = accepted /\ right = accepted)

C2_Witness ==
    /\ obj = "TeeWriter" /\ clean
    /\ last.op = "write_all" /\ last.ok /\ Len(last.arg) > 0
    /\ Len(last.pre.left) > 0
    /\ left = right /\ left = last.pre.left \o last.arg

\* C3: a successful TeeReader.read that returns n appended to the sink exactly
\* buf[0..n], the bytes the reader put in the caller's buffer, and n is the
\* reader's own count.
C3_ReadMirrorsExactly ==
    (last.op = "read" /\ last.ok) =>
        /\ writer = last.pre.writer \o SubSeq(last.out, 1, last.n)
        /\ last.n = last.primN
        /\ SubSeq(last.out, 1, last.n) = SubSeq(reader.data, last.pre.pos + 1, last.pre.pos + last.n)

C3_Witness ==
    /\ last.op = "read" /\ last.ok
    /\ last.n >= 1 /\ last.n < Len(last.out)
    /\ reader.pos < Len(reader.data)
    /\ Added(last.pre.writer, writer) = SubSeq(last.out, 1, last.n)

\* C4: a successful TeeWriter.write whose left accepted n < len(buf) bytes
\* submitted exactly buf[0..n] to right and returned n.
C4_ShortWrite ==
    (last.op = "write" /\ last.ok /\ last.primN < Len(last.arg)) =>
        /\ right = last.pre.right \o SubSeq(last.arg, 1, last.primN)
        /\ left = last.pre.left \o SubSeq(last.arg, 1, last.primN)
        /\ last.mirror = SubSeq(last.arg, 1, last.primN)
        /\ last.n = last.primN

C4_Witness ==
    /\ last.op = "write" /\ last.ok
    /\ last.primN >= 1 /\ last.primN < Len(last.arg)
    /\ Added(last.pre.right, right) = SubSeq(last.arg, 1, last.primN)

\* C5: a successful read_to_end, read_until or read_line on an accumulator
\* that held last.arg appended to the sink exactly the region the call
\* appended to the accumulator, none of the earlier content; and read_to_end
\* of a whole source on a fresh sink leaves the sink with the source's content.
C5_AppendedRegionOnly ==
    (last.op \in AppendOps /\ last.ok) =>
        /\ SubSeq(last.out, 1, Len(last.arg)) = last.arg
        /\ Len(last.out) = Len(last.arg) + last.n
        /\ writer = last.pre.writer \o Added(last.arg, last.out)
        /\ (last.op = "read_to_end" /\ last.pre.pos = 0 /\ last.pre.writer = <<>>)
              => writer = reader.data

C5_Witness ==
    /\ last.op \in AppendOps /\ last.ok
    /\ Len(last.arg) > 0 /\ last.n > 0
    /\ Len(last.pre.writer) > 0
    /\ Added(last.pre.writer, writer) = Added(last.arg, last.out)

\* C6: when the delegated reader / left operation of a read-family or
\* write-family call failed, the call returned that failure and the sink /
\* right received nothing during the call.
C6_PrimaryFailureNoMirror ==
    (last.op \in (ReadOps \cup WriteOps) /\ ~last.primOk) =>
        /\ ~last.ok
        /\ last.err.from = (IF obj = "TeeReader" THEN "reader" ELSE "left")
        /\ ~last.mirrorTried
        /\ writer = last.pre.writer
        /\ right = last.pre.right

C6_Witness ==
    /\ last.op = "read_exact" /\ ~last.primOk /\ ~last.ok
    /\ last.err = Err("reader", "UnexpectedEof")
    /\ last.primN > 0
    /\ reader.pos = last.pre.pos + last.primN
    /\ writer = last.pre.writer

\* C7: when the reader / left step succeeded and the mirror's write failed,
\* the call returned the mirror's error, and what the reader gave up or left
\* accepted stays so.
C7_MirrorFailureSurfaces ==
    (last.op \in (ReadOps \cup WriteOps) /\ last.mirrorTried /\ ~last.mirrorOk) =>
        /\ ~last.ok
        /\ last.primOk
        /\ last.err.from = (IF obj = "TeeReader" THEN "writer" ELSE "right")
        /\ reader.pos = last.pre.pos + (IF obj = "TeeReader" THEN last.primN ELSE 0)
        /\ obj = "TeeWriter" => left = last.pre.left \o SubSeq(last.arg, 1, last.primN)

C7_Witness ==
    /\ last.op = "write" /\ last.mirrorTried /\ ~last.mirrorOk
    /\ ~last.ok /\ last.err.from = "right"
    /\ last.primN > 0
    /\ Len(left) > Len(right)

\* C8: fill_buf, consume, seek and stream_position leave the sink as it was.
C8_PureDelegation ==
    (last.op \in PureOps) => writer = last.pre.writer

C8_Witness ==
    /\ last.op = "consume" /\ last.n > 0
    /\ reader.pos = last.pre.pos + last.n
    /\ writer = last.pre.writer

\* C9: flush flushes left first, right only after left's flush succeeded, and
\* succeeds iff both did; otherwise it returns the failing side's error.
\* (last.arg holds the flush calls made, in order.)
C9_FlushSequential ==
    (last.op = "flush") =>
        /\ last.arg = (IF last.primOk THEN <<"left", "right">> ELSE <<"left">>)
        /\ last.ok = (last.primOk /\ last.mirrorOk)
        /\ ~last.ok => last.err.from = (IF last.primOk THEN "right" ELSE "left")

C9_Witness ==
    /\ last.op = "flush" /\ last.primOk /\ ~last.mirrorOk
    /\ ~last.ok /\ last.err.from = "right"
    /\ last.arg = <<"left", "right">>

\* C10 as stated: after a successful write_fmt, right received the same bytes
\* left received.
C10_SameFormattedBytes ==
    (last.op = "write_fmt" /\ last.ok) =>
        Added(last.pre.right, right) = Added(last.pre.left, left)

====
